---- MODULE Spec2Model ----
(***************************************************************************)
(* Cosmic Clock (src/src/App.tsx): the ephemeris source abstraction of the *)
(* CosmicClock component (data source toggle, SPICE request, fallback to   *)
(* the circular model), the self-check harness, and the numeric helpers    *)
(* they rest on.                                                           *)
(*                                                                         *)
(* Numbers.  The program computes in IEEE doubles; the model computes in   *)
(* fixed point on integers, every quantity in a unit that keeps all        *)
(* intermediate products below 2^31:                                       *)
(*    angles              whole degrees                                    *)
(*    sines, cosines      1/1000                                           *)
(*    distances           1/1000 AU  (mAU)                                 *)
(*    speeds              1/100 km/s                                       *)
(*    orbital periods     1/1000 day (md), exact for every catalog entry   *)
(*    Julian dates        1/1000 day counted from JD 2451545.0 (J2000_TT)  *)
(*    clock hours         1/10000 h                                        *)
(* A division of the program is a floor division at the unit of its        *)
(* result.                                                                 *)
(***************************************************************************)
EXTENDS Integers, Sequences, FiniteSets, TLC

VARIABLES
    dataSource,   \* useState<'model'|'spice'>                   (line 357)
    spiceStatus,  \* useState<'idle'|'loading'|'ok'|'error'>     (line 358)
    rows,         \* useState<OrbitalRow[]>                      (line 359)
    visualJDTT,   \* useState, set by the animation loop         (line 302)
    pending,      \* the fetchSpiceStates promises not yet settled, oldest first
    ev,           \* the last step: its operation, the request it settled and
                  \* the response that request was given
    now,          \* useState(new Date()), UTC seconds since 1970 (line 291)
    earthLon,     \* useState(77.1025), in 1/10000 degree        (line 309)
    tests,        \* useState of the self-check records          (line 316)
    arg,          \* input of the pure function under check
    res           \* its result

vars == <<dataSource, spiceStatus, rows, visualJDTT, pending, ev, now,
          earthLon, tests, arg, res>>

-----------------------------------------------------------------------------
(* Utilities, lines 14-16 *)

\* JavaScript's % : the remainder of the division truncated towards zero; it
\* has the sign of the dividend n.
JsRem(n, m) ==
    LET d == IF m < 0 THEN -m ELSE m
    IN  IF n >= 0 THEN n % d ELSE -((-n) % d)

modNoWrap(n, m) == JsRem(n, m)

\* const mod = (n, m) => ((n % m) + m) % m
mod(n, m) == JsRem(JsRem(n, m) + m, m)

Abs(x) == IF x < 0 THEN -x ELSE x

Min(x, y) == IF x <= y THEN x ELSE y

RECURSIVE Pow10(_)
Pow10(k) == IF k = 0 THEN 1 ELSE 10 * Pow10(k - 1)

\* floor(p * 10^digits / q) by long division, for p >= 0 and 0 < q: the
\* program's p / q at a unit 10^digits times finer than p's.
RECURSIVE DivScaled(_, _, _)
DivScaled(p, q, digits) ==
    IF digits = 0 THEN p \div q
    ELSE (p \div q) * Pow10(digits) + DivScaled((p % q) * 10, q, digits - 1)

\* x / q at a unit 10^digits times finer, rounded towards zero, x of any sign.
QuotScaled(x, q, digits) ==
    IF x >= 0 THEN DivScaled(x, q, digits) ELSE -DivScaled(-x, q, digits)

\* Math.sin of an angle of x degrees, 0 <= x <= 180, in 1/1000 (Bhaskara's
\* rational form, within 2/1000 of the sine and exact at 0, 30, 90, 150, 180).
SinHalfTurn(x) == (4000 * x * (180 - x)) \div (40500 - x * (180 - x))

\* Math.sin(toRad(deg)) and Math.cos(toRad(deg)), in 1/1000.
SinDeg(deg) ==
    LET r == deg % 360
    IN  IF r <= 180 THEN SinHalfTurn(r) ELSE -SinHalfTurn(r - 180)

CosDeg(deg) == SinDeg(deg + 90)

\* Math.atan of p/q for 0 <= p <= q, 0 < q, in degrees: 45 z + 15.64 z (1 - z)
\* with z = p/q in 1/1000, exact at z = 0 and z = 1.
AtanUnitDeg(p, q) ==
    LET z == (p * 1000) \div q
    IN  (45 * z + (1564 * z * (1000 - z)) \div 100000 + 500) \div 1000

\* toDeg(Math.atan2(y, x)): the angle of (x, y) in (-180, 180], 0 at the origin.
Atan2Deg(y, x) ==
    LET ax == Abs(x)
        ay == Abs(y)
        first == IF ax = 0 /\ ay = 0 THEN 0
                 ELSE IF ay <= ax THEN AtanUnitDeg(ay, ax)
                 ELSE 90 - AtanUnitDeg(ax, ay)
        upper == IF x >= 0 THEN first ELSE 180 - first
    IN  IF y >= 0 THEN upper ELSE -upper

\* The largest r with r * r <= s, by Newton's iteration from above.
RECURSIVE NewtonSqrt(_, _)
NewtonSqrt(s, x) ==
    LET y == (x + s \div x) \div 2
    IN  IF y >= x THEN x ELSE NewtonSqrt(s, y)

\* Math.hypot(a, b), rounded down to the unit of a and b.
Hypot(a, b) ==
    LET s == a * a + b * b
    IN  IF s = 0 THEN 0 ELSE NewtonSqrt(s, s)

-----------------------------------------------------------------------------
(* Orbital (circular model), lines 60-73 *)

\* AU_KM = 149597870.7 km, in units of 1000 km.
AU_KM == 149598

\* J2000_TT = 2451545.0: the origin of the model's Julian dates.
J2000_TT == 0

\* 2 * Math.PI in 1/1000.
TWO_PI == 6283

SECONDS_PER_DAY == 86400

\* getOrbitalBodies(): a_AU in mAU, T_days in md.
getOrbitalBodies ==
    << [name |-> "Mercury", a_AU |-> 387,   T_days |-> 87969],
       [name |-> "Venus",   a_AU |-> 723,   T_days |-> 224701],
       [name |-> "Earth",   a_AU |-> 1000,  T_days |-> 365256],
       [name |-> "Mars",    a_AU |-> 1524,  T_days |-> 686980],
       [name |-> "Jupiter", a_AU |-> 5203,  T_days |-> 4332589],
       [name |-> "Saturn",  a_AU |-> 9537,  T_days |-> 10759220],
       [name |-> "Uranus",  a_AU |-> 19191, T_days |-> 30688500],
       [name |-> "Neptune", a_AU |-> 30069, T_days |-> 60182000] >>

CatalogNames == { getOrbitalBodies[i].name : i \in DOMAIN getOrbitalBodies }

\* mod(((jdTT - J2000_TT) / T) * 360, 360), in whole degrees.  The whole
\* revolutions are taken off first and the remaining fraction of a revolution
\* is taken in 1/1000; mod then wraps the negative angle of an instant before
\* J2000.
meanLongitudeDeg(jdTT, T) ==
    LET part == JsRem(jdTT - J2000_TT, T)
        deg == QuotScaled(QuotScaled(part, T, 3) * 360, 1000, 0)
    IN  mod(deg, 360)

\* The speed over half the circumference: Math.PI in place of 2 * Math.PI.
speedKmPerSecHalfTurn(a, T) ==
    DivScaled((((TWO_PI \div 2) * AU_KM) \div SECONDS_PER_DAY) * a, T, 2)

\* (2 * Math.PI * a * AU_KM) / T / 86400, in 1/100 km/s.
speedKmPerSec(a, T) ==
    DivScaled(((TWO_PI * AU_KM) \div SECONDS_PER_DAY) * a, T, 2)

-----------------------------------------------------------------------------
(* Dates, equation of time, Earth and Mars clocks, lines 25-49.  A Date is  *)
(* its UTC seconds since 1970-01-01T00:00:00Z.                              *)

IsLeapYear(y) == (y % 4 = 0 /\ y % 100 # 0) \/ y % 400 = 0

DaysInYear(y) == IF IsLeapYear(y) THEN 366 ELSE 365

\* Date.UTC(d.getUTCFullYear(), 0, 1) in days since 1970-01-01, for the day
\* `day`: the search starts from year y, whose first day is `start`.
RECURSIVE yearStartFrom(_, _, _)
yearStartFrom(day, y, start) ==
    IF day < start + DaysInYear(y) THEN start
    ELSE yearStartFrom(day, y + 1, start + DaysInYear(y))

UNIX_EPOCH_YEAR == 1970

\* getUTCHours()*3600 + getUTCMinutes()*60 + getUTCSeconds()
secondsOfDayUTC(date) == date % SECONDS_PER_DAY

\* dayOfYearUTC, line 25
dayOfYearUTC(date) ==
    LET day == date \div SECONDS_PER_DAY
    IN  (day - yearStartFrom(day, UNIX_EPOCH_YEAR, 0)) + 1

\* gamma of line 31 in whole degrees: (2 pi / 365) (N - 1 + (hours - 12) / 24)
\* radians are ((N - 1) 86400 + seconds - 43200) / 87600 degrees.
gammaDeg(date) ==
    ((dayOfYearUTC(date) - 1) * SECONDS_PER_DAY + secondsOfDayUTC(date)
        - 43200) \div 87600

\* equationOfTimeMinutes, lines 28-33, in 1/10000 minute: the series in 1e-6,
\* times 229.18.
equationOfTimeMinutes(date) ==
    LET g == gammaDeg(date)
        series == 75000 + 1868 * CosDeg(g) - 32077 * SinDeg(g)
                    - 14615 * CosDeg(2 * g) - 40849 * SinDeg(2 * g)
    IN  QuotScaled(22918 * QuotScaled(series, 1000, 0), 10000, 0)

\* julianDateUTC, line 34: date.getTime()/86400000 + 2440587.5, in md from
\* J2000 (JD 2440587.5 is 10957.5 days before JD 2451545.0).
JD_UNIX_EPOCH == -10957500

julianDateUTC(date) == DivScaled(date, SECONDS_PER_DAY, 3) + JD_UNIX_EPOCH

\* A whole day in clock hours, and an hour of longitude in degrees.
HOURS_24 == 240000

DEG_PER_HOUR == 15

\* utcHours of line 38 (the Dates of the model have no milliseconds).
utcHours(date) == (secondsOfDayUTC(date) * 25) \div 9

\* earthMeanSolarTimeHours, lines 37-40; lon in 1/10000 degree.
earthMeanSolarTimeHours(dateUTC, lon) ==
    mod(utcHours(dateUTC) + QuotScaled(lon, DEG_PER_HOUR, 0), HOURS_24)

\* earthApparentSolarTimeHours, lines 41-43
earthApparentSolarTimeHours(dateUTC, lon) ==
    mod(earthMeanSolarTimeHours(dateUTC, lon)
            + QuotScaled(equationOfTimeMinutes(dateUTC), 60, 0), HOURS_24)

\* Line 46, in seconds (32.184 to the second).
TAI_MINUS_UTC_SECONDS == 37

TT_MINUS_UTC_SECONDS == TAI_MINUS_UTC_SECONDS + 32

\* TT_MINUS_UTC_SECONDS / 86400, in md, to the nearest.
ttOffset == (TT_MINUS_UTC_SECONDS * 1000 + 43200) \div SECONDS_PER_DAY

\* The Mars Sol Date epoch JD 2405522.0028779 in md from J2000, and the sol
\* of 1.0274912517 days in 1/1000000 day.
MARS_EPOCH == -46022997

MARS_SOL == 1027491

\* marsSolDate, line 47, in 1/1000 sol.
marsSolDate(jdUTC) ==
    LET jdTT == jdUTC + ttOffset
    IN  QuotScaled(jdTT - MARS_EPOCH, MARS_SOL, 6)

\* The fraction of the sol scaled to hours, without the wrap into [0, 24).
marsMTC_HoursNoWrap(msd) == JsRem(msd, 1000) * 240

\* marsMTC_Hours, line 48: mod((msd % 1) * 24, 24)
marsMTC_Hours(msd) == mod(JsRem(msd, 1000) * 240, HOURS_24)

\* marsLMST_Hours, line 49
marsLMST_Hours(msd, lon) ==
    mod(marsMTC_Hours(msd) + QuotScaled(lon, DEG_PER_HOUR, 0), HOURS_24)

-----------------------------------------------------------------------------
(* Circular model rows builder, lines 129-136 *)

circularRow(b, jdTT) ==
    LET theta == meanLongitudeDeg(jdTT, b.T_days)
        v == speedKmPerSec(b.a_AU, b.T_days)
        x == QuotScaled(b.a_AU * CosDeg(theta), 1000, 0)
        y == QuotScaled(b.a_AU * SinDeg(theta), 1000, 0)
    IN  [name |-> b.name, a |-> b.a_AU, theta |-> theta, x |-> x, y |-> y,
         v |-> v, T |-> b.T_days]

circularRows(jdTT) ==
    [i \in DOMAIN getOrbitalBodies |-> circularRow(getOrbitalBodies[i], jdTT)]

-----------------------------------------------------------------------------
(* Bounds and inputs *)

\* The longest JSON array a response carries.
MaxLen == 2

\* The most requests in flight at once that the model follows.
MaxPending == 2

\* The values the animation loop gives setVisualJDTT: an instant before and
\* one after J2000, in md from J2000.
Instants == {-1234567, 9800123}

\* The rows a response may carry (x_km, y_km in units of 1000 km, vx_km_s,
\* vy_km_s in 1/100 km/s): catalog bodies on the positive x axis (angle 0) and
\* in the third quadrant (atan2 < 0), one body with two different states, and
\* a name that is not in the catalog.
spiceRow(n, x, y, vx, vy) ==
    [name |-> n, x_km |-> x, y_km |-> y, vx_km_s |-> vx, vy_km_s |-> vy]

RespRows ==
    { spiceRow("Mercury", 149598, 0, 300, 400),
      spiceRow("Earth", -299196, -299196, 2100, -2100),
      spiceRow("Earth", 0, 149598, -2978, 0),
      spiceRow("Pluto", 149598, 0, 300, 400) }

RECURSIVE SeqsUpTo(_, _)
SeqsUpTo(S, k) ==
    IF k = 0 THEN {<<>>}
    ELSE LET shorter == SeqsUpTo(S, k - 1)
         IN  shorter \cup { Append(q, e) : q \in shorter, e \in S }

\* What the backend may answer a request with: fetch rejects ("network"),
\* a status that is not ok ("http"), a body res.json() rejects ("parse"), a
\* JSON value that is not iterable ("notIterable"), or a JSON array of rows.
FailureKinds == {"network", "http", "parse", "notIterable"}

Responses ==
    { [kind |-> k, json |-> <<>>] : k \in FailureKinds }
    \cup { [kind |-> "array", json |-> j] : j \in SeqsUpTo(RespRows, MaxLen) }

NoRequest == [jd |-> 0, superseded |-> FALSE]

NoResponse == [kind |-> "none", json |-> <<>>]

-----------------------------------------------------------------------------
(* SPICE backend hook, lines 108-126 *)

\* One turn of the loop of lines 115-120: the row's entry of `out`.
spiceEntry(row) ==
    LET x_AU == QuotScaled(row.x_km, AU_KM, 3)
        y_AU == QuotScaled(row.y_km, AU_KM, 3)
    IN  [x_AU |-> x_AU, y_AU |-> y_AU,
         thetaDeg |-> mod(Atan2Deg(y_AU, x_AU), 360),
         v_kms |-> Hypot(row.vx_km_s, row.vy_km_s)]

\* The object `out` after the loop over json[from..]: a later row of the
\* same name overwrites the earlier one.
RECURSIVE spiceOut(_, _, _)
spiceOut(json, from, out) ==
    IF from > Len(json) THEN out
    ELSE LET row == json[from]
             rest == [n \in DOMAIN out \ {row.name} |-> out[n]]
             one == [n \in {row.name} |-> spiceEntry(row)]
         IN  spiceOut(json, from + 1, rest @@ one)

\* fetchSpiceStates: the promise is fulfilled with `out`, or rejected (the
\* catch of line 122 throws again).
fetchSpiceStates(resp) ==
    IF resp.kind = "array"
    THEN [fulfilled |-> TRUE, out |-> spiceOut(resp.json, 1, <<>>)]
    ELSE [fulfilled |-> FALSE, out |-> <<>>]

-----------------------------------------------------------------------------
(* Build rows whenever time or source changes, lines 362-383 *)

\* As mergedRow, with the speed taken from the response.
mergedRowResponseSpeed(b, m) ==
    [name |-> b.name, a |-> b.a_AU, theta |-> m.thetaDeg, x |-> m.x_AU,
     y |-> m.y_AU, v |-> m.v_kms, T |-> b.T_days]

\* As mergedRow, with the orbit radius taken from the response position.
mergedRowResponseRadius(b, m) ==
    [name |-> b.name, a |-> Hypot(m.x_AU, m.y_AU), theta |-> m.thetaDeg,
     x |-> m.x_AU, y |-> m.y_AU, v |-> speedKmPerSec(b.a_AU, b.T_days),
     T |-> b.T_days]

\* Lines 369-376: one row per catalog body that `out` has an entry for, in
\* catalog order; the speed is the mean speed of the catalog orbit.
mergedRow(b, m) ==
    [name |-> b.name, a |-> b.a_AU, theta |-> m.thetaDeg, x |-> m.x_AU,
     y |-> m.y_AU, v |-> speedKmPerSec(b.a_AU, b.T_days), T |-> b.T_days]

\* As mergedFrom, with a model row for every body `out` has no entry for.
RECURSIVE mergedBackFilled(_, _)
mergedBackFilled(out, i) ==
    IF i > Len(getOrbitalBodies) THEN <<>>
    ELSE LET b == getOrbitalBodies[i]
         IN  IF b.name \in DOMAIN out
             THEN <<mergedRow(b, out[b.name])>> \o mergedBackFilled(out, i + 1)
             ELSE <<circularRow(b, J2000_TT)>> \o mergedBackFilled(out, i + 1)

RECURSIVE mergedFrom(_, _)
mergedFrom(out, i) ==
    IF i > Len(getOrbitalBodies) THEN <<>>
    ELSE LET b == getOrbitalBodies[i]
         IN  IF b.name \in DOMAIN out
             THEN <<mergedRow(b, out[b.name])>> \o mergedFrom(out, i + 1)
             ELSE mergedFrom(out, i + 1)

merged(out) == mergedFrom(out, 1)

\* As onFulfilled, without the test of merged.length.
onFulfilledUnchecked(out, jdTT) == [rows |-> merged(out), status |-> "ok"]

\* As onFulfilled, without any call of setSpiceStatus: the status stays the
\* 'loading' the effect set.
onFulfilledStatusKept(out, jdTT) ==
    IF Len(merged(out)) > 0
    THEN [rows |-> merged(out), status |-> "loading"]
    ELSE [rows |-> circularRows(jdTT), status |-> "loading"]

\* Line 377, the .then callback: what it passes to setRows and setSpiceStatus.
\* jdTT is the visualJDTT of the render whose effect issued the request.
onFulfilled(out, jdTT) ==
    IF Len(merged(out)) > 0
    THEN [rows |-> merged(out), status |-> "ok"]
    ELSE [rows |-> circularRows(jdTT), status |-> "error"]

\* As onRejected, without the fallback rows.
onRejectedNoFallback(jdTT) == [rows |-> <<>>, status |-> "error"]

\* Line 379, the .catch callback.
onRejected(jdTT) == [rows |-> circularRows(jdTT), status |-> "error"]

\* The settlements, tabulated once over the responses and instants of the
\* model: how fetchSpiceStates settles the promise, and what the callback
\* that then runs passes to setRows and setSpiceStatus.
Settled == [resp \in Responses |-> fetchSpiceStates(resp).fulfilled]

Handled ==
    [resp \in Responses |->
        [t \in Instants |->
            IF fetchSpiceStates(resp).fulfilled
            THEN onFulfilled(fetchSpiceStates(resp).out, t)
            ELSE onRejected(t)]]

ModelRows == [t \in Instants |-> circularRows(t)]

\* Every request in flight when the effect runs again has been superseded.
Supersede(pend) ==
    [i \in DOMAIN pend |-> [pend[i] EXCEPT !.superseded = TRUE]]

RemoveAt(q, i) == SubSeq(q, 1, i - 1) \o SubSeq(q, i + 1, Len(q))

\* As issueRequest, with the request sent twice.
issueRequestTwice(pend, jdTT) ==
    Append(Append(Supersede(pend), [jd |-> jdTT, superseded |-> FALSE]),
           [jd |-> jdTT, superseded |-> FALSE])

\* Lines 365-367: the requests in flight after the effect has run with 'spice'.
issueRequest(pend, jdTT) ==
    Append(Supersede(pend), [jd |-> jdTT, superseded |-> FALSE])

\* The effect body, run after a render in which dataSource or visualJDTT
\* changed, with the values of that render.
rowEffect(source, jdTT) ==
    IF source = "spice"
    THEN /\ Len(pending) < MaxPending
         /\ spiceStatus' = "loading"
         /\ pending' = issueRequest(pending, jdTT)
         /\ UNCHANGED rows
    ELSE /\ rows' = ModelRows[jdTT]
         /\ spiceStatus' = "idle"
         /\ pending' = Supersede(pending)

Step(op) == [op |-> op, req |-> NoRequest, resp |-> NoResponse]

\* Line 305: the animation loop sets visualJDTT; a value equal to the current
\* one renders nothing and runs no effect.
Frame ==
    \E t \in Instants \ {visualJDTT} :
        /\ visualJDTT' = t
        /\ rowEffect(dataSource, t)
        /\ ev' = Step("frame")
        /\ UNCHANGED <<dataSource, now, earthLon, tests, arg, res>>

\* Line 511: the select's onChange.
SetDataSource ==
    \E s \in {"model", "spice"} \ {dataSource} :
        /\ dataSource' = s
        /\ rowEffect(s, visualJDTT)
        /\ ev' = Step("source")
        /\ UNCHANGED <<visualJDTT, now, earthLon, tests, arg, res>>

\* A request in flight settles with one of the responses R: its promise is
\* fulfilled and .then runs.
ThenWith(R) ==
    \E i \in DOMAIN pending, resp \in R :
        LET h == Handled[resp][pending[i].jd]
        IN  /\ Settled[resp]
            /\ rows' = h.rows
            /\ spiceStatus' = h.status
            /\ pending' = RemoveAt(pending, i)
            /\ ev' = [op |-> "then", req |-> pending[i], resp |-> resp]
            /\ UNCHANGED <<dataSource, visualJDTT, now, earthLon, tests,
                           arg, res>>

\* A request in flight settles with one of the responses R: its promise is
\* rejected and .catch runs.
CatchWith(R) ==
    \E i \in DOMAIN pending, resp \in R :
        LET h == Handled[resp][pending[i].jd]
        IN  /\ ~Settled[resp]
            /\ rows' = h.rows
            /\ spiceStatus' = h.status
            /\ pending' = RemoveAt(pending, i)
            /\ ev' = [op |-> "catch", req |-> pending[i], resp |-> resp]
            /\ UNCHANGED <<dataSource, visualJDTT, now, earthLon, tests,
                           arg, res>>

Then == ThenWith(Responses)

Catch == CatchWith(Responses)

-----------------------------------------------------------------------------
(* Self-checks, lines 385-401 *)

\* Number.prototype.toFixed(digits) of x >= 0 given in 1/unit: the nearest
\* multiple of 10^-digits, in 10^-digits.
toFixed(x, unit, digits) == (x * Pow10(digits) + unit \div 2) \div unit

\* As push, dropping the record of a check that failed.
pushPassing(checks, rec) == IF rec.pass THEN Append(checks, rec) ELSE checks

\* checks.push(rec)
push(checks, rec) == Append(checks, rec)

\* approx, line 390: got, expected and tol in 1/unit.
approx(checks, name, got, expected, tol, unit, expectedText, note) ==
    push(checks, [name |-> name, pass |-> (Abs(got - expected) <= tol),
                  got |-> toFixed(got, unit, 2), expected |-> expectedText,
                  note |-> note])

bodyNamed(n) ==
    getOrbitalBodies[CHOOSE i \in DOMAIN getOrbitalBodies :
                        getOrbitalBodies[i].name = n]

\* The value of `checks` at line 400, for the state of the render the button
\* belongs to.  The names are those of the program with "0E" for its
\* "0 degrees E" and "~" for its "almost equal" sign.
selfChecks(source, status, date, lon) ==
    LET earth == bodyNamed("Earth")
        mercury == bodyNamed("Mercury")
        neptune == bodyNamed("Neptune")
        vE == speedKmPerSec(earth.a_AU, earth.T_days)
        vM == speedKmPerSec(mercury.a_AU, mercury.T_days)
        vN == speedKmPerSec(neptune.a_AU, neptune.T_days)
        c1 == approx(<<>>, "Earth speed", vE, 2978, 50, 100, "29.78+-0.5",
                     "mean")
        c2 == approx(c1, "Mercury speed", vM, 4736, 100, 100, "47.36+-1",
                     "fast")
        c3 == approx(c2, "Neptune speed", vN, 543, 20, 100, "5.43+-0.2",
                     "slow")
        degPerDay == DivScaled(360000, earth.T_days, 4)
        c4 == approx(c3, "Earth deg/day", degPerDay, 9856, 200, 10000,
                     "0.99+-0.02", "sidereal year")
        msd == marsSolDate(julianDateUTC(date))
        mtcNow == marsMTC_Hours(msd)
        lmst0 == marsLMST_Hours(msd, 0)
        c5 == approx(c4, "Mars: |MTC-LMST@0E|", Abs(mtcNow - lmst0), 0, 50,
                     10000, "0.00+-0.005", "~18 s")
        lmstE == earthMeanSolarTimeHours(date, lon)
        lastE == earthApparentSolarTimeHours(date, lon)
        eotH == QuotScaled(equationOfTimeMinutes(date), 60, 0)
        diff == mod(lastE - lmstE - eotH, HOURS_24)
        err == Min(diff, HOURS_24 - diff)
        c6 == push(c5, [name |-> "Earth: LAST-LMST~EoT/60",
                        pass |-> (err < 100),
                        got |-> toFixed(err, 10000, 4),
                        expected |-> "<0.01", note |-> "~36 s"])
        ang == mod(Atan2Deg(1, 0), 360)
        c7 == push(c6, [name |-> "atan2(1,0) deg = 90",
                        pass |-> (Abs(ang - 90) < 1),
                        got |-> toFixed(ang, 1, 6),
                        expected |-> "90.000000"])
    IN  push(c7, [name |-> "Data source: " \o source,
                  pass |-> (source = "model" \/ status # "error"),
                  got |-> status, expected |-> "model or spice(ok)"])

\* The Dates setNow is given (line 318): 2026-11-04T18:06:09Z, the last
\* second of 2024-02-29 and the first of 2027.
Dates == {1793815569, 1709251199, 1798761600}

\* The longitudes setEarthLon is given: the initial 77.1025, -180 and 400.
Longitudes == {771025, -1800000, 4000000}

\* selfChecks, tabulated once over the states of the model.
SelfChecked ==
    [source \in {"model", "spice"} |->
        [status \in {"idle", "loading", "ok", "error"} |->
            [date \in Dates |->
                [lon \in Longitudes |->
                    selfChecks(source, status, date, lon)]]]]

\* Line 530: the button's onClick.
RunSelfChecks ==
    /\ tests' = SelfChecked[dataSource][spiceStatus][now][earthLon]
    /\ ev' = Step("checks")
    /\ UNCHANGED <<dataSource, spiceStatus, rows, visualJDTT, pending, now,
                   earthLon, arg, res>>

\* Line 318: the one-second interval.
SetNow ==
    \E d \in Dates \ {now} :
        /\ now' = d
        /\ ev' = Step("now")
        /\ UNCHANGED <<dataSource, spiceStatus, rows, visualJDTT, pending,
                       earthLon, tests, arg, res>>

\* setEarthLon, the longitude input.
SetEarthLon ==
    \E l \in Longitudes \ {earthLon} :
        /\ earthLon' = l
        /\ ev' = Step("lon")
        /\ UNCHANGED <<dataSource, spiceStatus, rows, visualJDTT, pending,
                       now, tests, arg, res>>

-----------------------------------------------------------------------------
(* The component after its first render and effects *)

Init ==
    /\ dataSource = "model"
    /\ spiceStatus = "idle"
    /\ visualJDTT \in Instants
    /\ rows = ModelRows[visualJDTT]
    /\ pending = <<>>
    /\ ev = Step("mount")
    /\ now = 1793815569
    /\ earthLon = 771025
    /\ tests = <<>>
    /\ arg = <<>>
    /\ res = <<>>

\* The ephemeris source abstraction under every response of the model.
Next ==
    \/ Frame
    \/ SetDataSource
    \/ Then
    \/ Catch

Spec == Init /\ [][Next]_vars

\* The self-check harness reads dataSource, spiceStatus, now and earthLon.
\* Its specification drives the source and the status with three responses
\* (a rejection, an empty array, one mapped body), which reach every pair of
\* source and status that the full set of responses reaches.
CheckResponses ==
    { [kind |-> "http", json |-> <<>>],
      [kind |-> "array", json |-> <<>>],
      [kind |-> "array",
       json |-> <<spiceRow("Mercury", 149598, 0, 300, 400)>>] }

ThenChecked == ThenWith(CheckResponses)

CatchChecked == CatchWith(CheckResponses)

NextChecks ==
    \/ Frame
    \/ SetDataSource
    \/ ThenChecked
    \/ CatchChecked
    \/ SetNow
    \/ SetEarthLon
    \/ RunSelfChecks

SpecChecks == Init /\ [][NextChecks]_vars

-----------------------------------------------------------------------------
(* mod as a function of its arguments, line 14 *)

\* The arguments range over -MaxN..MaxN and 1..MaxM.
MaxN == 50

MaxM == 24

InitMod ==
    /\ dataSource = "model"
    /\ spiceStatus = "idle"
    /\ visualJDTT = J2000_TT
    /\ rows = circularRows(J2000_TT)
    /\ pending = <<>>
    /\ ev = Step("mount")
    /\ now = 0
    /\ earthLon = 771025
    /\ tests = <<>>
    /\ arg \in [n : -MaxN..MaxN, m : 1..MaxM]
    /\ res = <<>>

ApplyMod ==
    /\ res = <<>>
    /\ res' = <<mod(arg.n, arg.m)>>
    /\ UNCHANGED <<dataSource, spiceStatus, rows, visualJDTT, pending, ev,
                   now, earthLon, tests, arg>>

NextMod == ApplyMod

SpecMod == InitMod /\ [][NextMod]_vars

-----------------------------------------------------------------------------
(* Properties of the ephemeris source abstraction *)

\* The last step settled a request.
Resolved == ev.op \in {"then", "catch"}

\* The catalog bodies a response names.
MappedBodies(resp) ==
    { resp.json[i].name : i \in DOMAIN resp.json } \cap CatalogNames

\* The request failed: no JSON array arrived, or it names no catalog body.
Failed(resp) == resp.kind # "array" \/ MappedBodies(resp) = {}

RowNames == { rows[i].name : i \in DOMAIN rows }

\* The row of json that decides body n: the last one carrying that name.
LastRowOf(json, n) ==
    json[CHOOSE i \in DOMAIN json :
            /\ json[i].name = n
            /\ \A j \in DOMAIN json : j > i => json[j].name # n]

\* C1: when the request of a tick fails (no array, or an array naming no
\* catalog body), its settlement installs the eight circular-model rows of
\* the instant of that tick and sets the status to 'error'.
C1_FallbackOnFailure ==
    (Resolved /\ Failed(ev.resp)) =>
        /\ rows = circularRows(ev.req.jd)
        /\ Len(rows) = Len(getOrbitalBodies)
        /\ spiceStatus = "error"

\* C1 witness: an array naming only a foreign body was answered to a request
\* whose instant is no longer the current one.
C1_Witness ==
    /\ ev.op = "then"
    /\ ev.resp.json # <<>>
    /\ Failed(ev.resp)
    /\ ev.req.jd # visualJDTT
    /\ dataSource = "spice"

\* C2: a response naming a non-empty proper subset S of the catalog installs
\* rows for exactly the bodies of S, one each.
C2_PartialMappingExact ==
    (/\ ev.op = "then"
     /\ MappedBodies(ev.resp) # {}
     /\ MappedBodies(ev.resp) # CatalogNames) =>
        /\ RowNames = MappedBodies(ev.resp)
        /\ Len(rows) = Cardinality(MappedBodies(ev.resp))

\* C2 witness: a response naming two of the eight catalog bodies was installed.
C2_Witness ==
    /\ ev.op = "then"
    /\ Cardinality(MappedBodies(ev.resp)) = 2
    /\ Len(rows) = 2

\* C3: the row table is never empty.
C3_RowsNonEmpty == Len(rows) > 0

\* C3 witness: an empty JSON array was answered.
C3_Witness ==
    /\ ev.op = "then"
    /\ ev.resp.kind = "array"
    /\ ev.resp.json = <<>>

\* C4: the successful response of a request that a later tick superseded
\* changes neither the row table nor the status.
C4_StaleResponseIgnored ==
    [][(/\ ev'.op = "then"
        /\ Len(pending') < Len(pending)
        /\ ev'.req.superseded
        /\ ~Failed(ev'.resp)) =>
            (rows' = rows /\ spiceStatus' = spiceStatus)]_vars

\* C5: at most one external request is outstanding at any time.
C5_SingleOutstanding == Len(pending) <= 1

\* C6: while an external request is in flight the status is 'loading'; stated
\* here for the states in which the external source is still the active one
\* and the request of the latest tick is still in flight.
C6_LoadingWhileInFlight ==
    (/\ dataSource = "spice"
     /\ \E i \in DOMAIN pending : ~pending[i].superseded) =>
        spiceStatus = "loading"

\* C7 as claimed: after a response naming at least one catalog body the status
\* is 'ok' and every row has the angle, position and speed of that response,
\* the speed being hypot(vx, vy).
C7_RowsFromResponse ==
    (ev.op = "then" /\ ~Failed(ev.resp)) =>
        /\ spiceStatus = "ok"
        /\ \A i \in DOMAIN rows :
            LET r == LastRowOf(ev.resp.json, rows[i].name)
                x == QuotScaled(r.x_km, AU_KM, 3)
                y == QuotScaled(r.y_km, AU_KM, 3)
            IN  /\ rows[i].x = x
                /\ rows[i].y = y
                /\ rows[i].theta = mod(Atan2Deg(y, x), 360)
                /\ rows[i].v = Hypot(r.vx_km_s, r.vy_km_s)

\* C7 as amended: after a response naming at least one catalog body the status
\* is 'ok' and every row has the angle and position of that response (of the
\* last row of its name), the angle being mod(atan2(y, x) in degrees, 360);
\* its speed is the mean circular speed of the catalog orbit, not the
\* hypot(vx, vy) of the response.
C7_PositionFromResponseMeanSpeed ==
    (ev.op = "then" /\ ~Failed(ev.resp)) =>
        /\ spiceStatus = "ok"
        /\ \A i \in DOMAIN rows :
            LET r == LastRowOf(ev.resp.json, rows[i].name)
                x == QuotScaled(r.x_km, AU_KM, 3)
                y == QuotScaled(r.y_km, AU_KM, 3)
            IN  /\ rows[i].x = x
                /\ rows[i].y = y
                /\ rows[i].theta = mod(Atan2Deg(y, x), 360)
                /\ rows[i].theta \in 0..359
                /\ \E k \in DOMAIN getOrbitalBodies :
                    /\ getOrbitalBodies[k].name = rows[i].name
                    /\ rows[i].v = speedKmPerSec(getOrbitalBodies[k].a_AU,
                                                 getOrbitalBodies[k].T_days)

\* C7 witness: a row in the third quadrant, where atan2 is negative, was
\* installed from a response that names its body twice.
C7_Witness ==
    /\ ev.op = "then"
    /\ spiceStatus = "ok"
    /\ Len(ev.resp.json) = 2
    /\ ev.resp.json[1].name = ev.resp.json[2].name
    /\ \E i \in DOMAIN rows : rows[i].theta = 225 /\ rows[i].x < 0

\* C8: a run of the effect with 'spice' puts exactly one new request, for the
\* instant of that run, in flight; a run with 'model' puts none; a settlement,
\* failed or not, takes its request away and puts none in flight.
C8_OneRequestPerTick ==
    [][/\ (ev'.op \in {"frame", "source"} /\ dataSource' = "spice") =>
            /\ Len(pending') = Len(pending) + 1
            /\ pending'[Len(pending')] = [jd |-> visualJDTT',
                                          superseded |-> FALSE]
       /\ (ev'.op \in {"frame", "source"} /\ dataSource' = "model") =>
            Len(pending') = Len(pending)
       /\ ev'.op \in {"then", "catch"} =>
            Len(pending') = Len(pending) - 1]_vars

\* C8 witness: a request failed and nothing is in flight after it.
C8_Witness ==
    /\ ev.op = "catch"
    /\ dataSource = "spice"
    /\ spiceStatus = "error"
    /\ pending = <<>>

-----------------------------------------------------------------------------
(* Properties of the self-check harness *)

CheckNames ==
    <<"Earth speed", "Mercury speed", "Neptune speed", "Earth deg/day",
      "Mars: |MTC-LMST@0E|", "Earth: LAST-LMST~EoT/60", "atan2(1,0) deg = 90",
      "Data source: ">>

\* C9: runSelfChecks completes in every state: the records it installs are
\* the eight checks in their fixed order, each with a boolean pass, whether
\* or not a check fails; the last one is named after the active source.
C9_SelfChecksComplete ==
    /\ ev.op = "checks" => tests # <<>>
    /\ tests # <<>> =>
        /\ Len(tests) = Len(CheckNames)
        /\ \A i \in 1..7 : tests[i].name = CheckNames[i]
        /\ tests[8].name \in { CheckNames[8] \o "model",
                               CheckNames[8] \o "spice" }
        /\ \A i \in DOMAIN tests : tests[i].pass \in BOOLEAN

\* C9 witness: the checks ran while the external source had failed, at a
\* longitude outside [-180, 180]; a check failed and all eight are there.
C9_Witness ==
    /\ ev.op = "checks"
    /\ dataSource = "spice"
    /\ spiceStatus = "error"
    /\ earthLon = 4000000
    /\ Len(tests) = 8
    /\ \E i \in DOMAIN tests : ~tests[i].pass

-----------------------------------------------------------------------------
(* Properties of mod *)

\* C10: for every n and every positive m, mod(n, m) is in [0, m) and is
\* congruent to n modulo m.
C10_ModRange ==
    res # <<>> =>
        /\ res[1] >= 0
        /\ res[1] < arg.m
        /\ \E k \in -(MaxN + 1)..(MaxN + 1) : arg.n = k * arg.m + res[1]

\* C10 witness: mod was applied to a negative n that m does not divide.
C10_Witness ==
    /\ res # <<>>
    /\ arg.n < 0
    /\ res[1] > 0

-----------------------------------------------------------------------------
(* Day numbers of the planet tiles, lines 275 and 335-348 *)

\* Math.floor of a quotient whose divisor may be negative.
FloorDiv(a, b) == IF b > 0 THEN a \div b ELSE (-a) \div (-b)

\* Bodies, line 335: solar day in 1/1000 hour, epoch in md from J2000.
Bodies ==
    [Moon    |-> [solarDayHours |-> 708734,   epochJDTT |-> J2000_TT],
     Mercury |-> [solarDayHours |-> 4222512,  epochJDTT |-> J2000_TT],
     Venus   |-> [solarDayHours |-> -2802000, epochJDTT |-> J2000_TT],
     Jupiter |-> [solarDayHours |-> 9925,     epochJDTT |-> J2000_TT]]

\* rotationCount, line 275:
\* Math.floor((jdTT - epochJDTT) / (periodHours / 24))
rotationCount(jdTT, periodHours, epochJDTT) ==
    FloorDiv((jdTT - epochJDTT) * 24, periodHours)

\* A day number that drops the sign of the period.
dayNumberAbsPeriod(jdTT, body) ==
    rotationCount(jdTT, Abs(body.solarDayHours), body.epochJDTT)

\* The day number of a tile, lines 345-348 (the same expression inlined).
dayNumber(jdTT, body) ==
    rotationCount(jdTT, body.solarDayHours, body.epochJDTT)

venusDayNum(jdTT) == dayNumber(jdTT, Bodies.Venus)

jupiterDayNum(jdTT) == dayNumber(jdTT, Bodies.Jupiter)

\* Instants on both sides of J2000: MaxK steps of a tenth of a day (a
\* quarter of a Jupiter rotation) and MaxK steps of half a Venus solar day.
MaxK == 6

DayInstants ==
    {k * 100 : k \in -MaxK..MaxK}
        \cup {k * ((-Bodies.Venus.solarDayHours) \div 48) : k \in -MaxK..MaxK}

InitDay ==
    /\ dataSource = "model"
    /\ spiceStatus = "idle"
    /\ visualJDTT = J2000_TT
    /\ rows = circularRows(J2000_TT)
    /\ pending = <<>>
    /\ ev = Step("mount")
    /\ now = 0
    /\ earthLon = 771025
    /\ tests = <<>>
    /\ arg \in {p \in [jdTT1 : DayInstants, jdTT2 : DayInstants] :
                    p.jdTT1 <= p.jdTT2}
    /\ res = <<>>

ApplyDay ==
    /\ res = <<>>
    /\ res' = [venus1   |-> venusDayNum(arg.jdTT1),
               venus2   |-> venusDayNum(arg.jdTT2),
               jupiter1 |-> jupiterDayNum(arg.jdTT1),
               jupiter2 |-> jupiterDayNum(arg.jdTT2)]
    /\ UNCHANGED <<dataSource, spiceStatus, rows, visualJDTT, pending, ev,
                   now, earthLon, tests, arg>>

NextDay == ApplyDay

SpecDay == InitDay /\ [][NextDay]_vars

\* C11: for instants jdTT1 <= jdTT2 on either side of J2000 the Venus day
\* number (negative period) does not increase and the Jupiter day number
\* (positive period) does not decrease.
C11_DayNumberMonotone ==
    res # <<>> =>
        /\ res.venus1 >= res.venus2
        /\ res.jupiter1 <= res.jupiter2

\* C11 witness: a pair straddling J2000 over which the Venus day number
\* strictly fell and the Jupiter day number strictly rose.
C11_Witness ==
    /\ res # <<>>
    /\ arg.jdTT1 < J2000_TT
    /\ arg.jdTT2 > J2000_TT
    /\ res.venus1 > res.venus2
    /\ res.venus1 >= 0
    /\ res.jupiter1 < 0
    /\ res.jupiter2 > res.jupiter1


-----------------------------------------------------------------------------
(* Mars clock as a function of the sol date and the longitude, lines 48-49 *)

\* Sol dates are MaxSolK steps of 0.137 sol on both sides of zero.
MaxSolK == 10

\* Longitudes are MaxLonK steps of 37.5015 degrees on both sides of zero, in
\* 1/10000 degree; the step is a multiple of DEG_PER_HOUR units, so lon / 15
\* is exact at the clock's unit.
MaxLonK == 12

SolDates == {k * 137 : k \in -MaxSolK..MaxSolK}

MarsLongitudes == {k * (DEG_PER_HOUR * 25001) : k \in -MaxLonK..MaxLonK}

\* 360 degrees in 1/10000 degree: 24 hours of DEG_PER_HOUR degrees.
FULL_TURN == DEG_PER_HOUR * HOURS_24

InitMars ==
    /\ dataSource = "model"
    /\ spiceStatus = "idle"
    /\ visualJDTT = J2000_TT
    /\ rows = circularRows(J2000_TT)
    /\ pending = <<>>
    /\ ev = Step("mount")
    /\ now = 0
    /\ earthLon = 771025
    /\ tests = <<>>
    /\ arg \in [msd : SolDates, lon : MarsLongitudes]
    /\ res = <<>>

ApplyMars ==
    /\ res = <<>>
    /\ res' = [mtc     |-> marsMTC_Hours(arg.msd),
               lmst0   |-> marsLMST_Hours(arg.msd, 0),
               lmst    |-> marsLMST_Hours(arg.msd, arg.lon),
               lmst360 |-> marsLMST_Hours(arg.msd, arg.lon + FULL_TURN)]
    /\ UNCHANGED <<dataSource, spiceStatus, rows, visualJDTT, pending, ev,
                   now, earthLon, tests, arg>>

NextMars == ApplyMars

SpecMars == InitMars /\ [][NextMars]_vars

\* C12: for every sol date, negative ones included, marsMTC_Hours is in
\* [0, 24) and differs from marsLMST_Hours at longitude 0 by less than
\* 0.005 h; for every longitude, marsLMST_Hours is the same at lon and at
\* lon + 360.
C12_MarsClockWraps ==
    res # <<>> =>
        /\ res.mtc >= 0
        /\ res.mtc < HOURS_24
        /\ Abs(res.lmst0 - res.mtc) < 50
        /\ res.lmst = res.lmst360

\* C12 witness: a negative sol date whose truncating remainder is negative,
\* at a negative longitude east of -360 degrees, with a clock past midnight.
C12_Witness ==
    /\ res # <<>>
    /\ arg.msd < 0
    /\ JsRem(arg.msd, 1000) < 0
    /\ arg.lon < 0
    /\ arg.lon + FULL_TURN > 0
    /\ res.mtc > 0
    /\ res.lmst # res.mtc


-----------------------------------------------------------------------------
(* Clock text, lines 17-24.  Hours are in 1/10000 h; a text is the sequence
   of its characters, decimal digits as numbers. *)

\* 1 in the unit of the clock hours
ONE == HOURS_24 \div 24

\* `${n}` for an integer 0 <= n: its decimal digits.
RECURSIVE Decimal(_)
Decimal(n) == IF n < 10 THEN <<n>> ELSE Decimal(n \div 10) \o <<n % 10>>

\* pad2, line 17
pad2(n) == IF n < 10 THEN <<0>> \o Decimal(n) ELSE Decimal(n)

\* The text with the seconds rounded to the nearest instead of floored.
formatHMSRounded(hoursFloat) ==
    LET h == mod(hoursFloat \div ONE, 24)
        m == mod(hoursFloat * 60, 60 * ONE) \div ONE
        s == (mod(hoursFloat * 3600, 60 * ONE) + ONE \div 2) \div ONE
    IN  pad2(h) \o <<":">> \o pad2(m) \o <<":">> \o pad2(s)

\* formatHMS, lines 18-23
formatHMS(hoursFloat) ==
    LET h == mod(hoursFloat \div ONE, 24)
        m == mod(hoursFloat * 60, 60 * ONE) \div ONE
        s == mod(hoursFloat * 3600, 60 * ONE) \div ONE
    IN  pad2(h) \o <<":">> \o pad2(m) \o <<":">> \o pad2(s)

\* formatHMS24, line 24
formatHMS24(hoursFloat) == formatHMS(mod(hoursFloat, HOURS_24))

\* Hours are MaxHK steps of 0.7919 h on both sides of zero.
MaxHK == 60

ClockHours == {k * 7919 : k \in -MaxHK..MaxHK}

InitHMS ==
    /\ dataSource = "model"
    /\ spiceStatus = "idle"
    /\ visualJDTT = J2000_TT
    /\ rows = circularRows(J2000_TT)
    /\ pending = <<>>
    /\ ev = Step("mount")
    /\ now = 0
    /\ earthLon = 771025
    /\ tests = <<>>
    /\ arg \in ClockHours
    /\ res = <<>>

ApplyHMS ==
    /\ res = <<>>
    /\ res' = [text    |-> formatHMS24(arg),
               wrapped |-> formatHMS24(mod(arg, HOURS_24))]
    /\ UNCHANGED <<dataSource, spiceStatus, rows, visualJDTT, pending, ev,
                   now, earthLon, tests, arg>>

NextHMS == ApplyHMS

SpecHMS == InitHMS /\ [][NextHMS]_vars

\* The text is two digits, a colon, two digits, a colon, two digits.
IsClockText(t) ==
    /\ Len(t) = 8
    /\ t[3] = ":"
    /\ t[6] = ":"
    /\ \A i \in {1, 2, 4, 5, 7, 8} : t[i] \in 0..9

FieldOf(t, i) == 10 * t[i] + t[i + 1]

\* C13: for h in [0, 24) formatHMS24(h) is HH:MM:SS with H in 0..23, M and S
\* in 0..59, H + M/60 + S/3600 <= h and h - (H + M/60 + S/3600) < 1/3600;
\* for h outside [0, 24) the text is that of mod(h, 24).
C13_ClockTextTruncates ==
    res # <<>> =>
        LET t       == res.wrapped
            h       == mod(arg, HOURS_24)
            seconds == FieldOf(t, 1) * 3600 + FieldOf(t, 4) * 60 + FieldOf(t, 7)
        IN  /\ IsClockText(t)
            /\ FieldOf(t, 1) \in 0..23
            /\ FieldOf(t, 4) \in 0..59
            /\ FieldOf(t, 7) \in 0..59
            /\ seconds * ONE <= h * 3600
            /\ h * 3600 - seconds * ONE < ONE
            /\ res.text = t

\* C13 witness: a negative hour was formatted, and its text has a one-digit
\* hour and nonzero minutes and seconds.
C13_Witness ==
    /\ res # <<>>
    /\ arg < 0
    /\ IsClockText(res.text)
    /\ FieldOf(res.text, 1) \in 1..9
    /\ FieldOf(res.text, 4) > 0
    /\ FieldOf(res.text, 7) > 0


-----------------------------------------------------------------------------
(* Properties of the speed self-checks, lines 389-391 *)

meanSpeedOf(n) == speedKmPerSec(bodyNamed(n).a_AU, bodyNamed(n).T_days)

\* C14: the mean circular speeds computed from the catalog constants are
\* within [29.28, 30.28] km/s for Earth, [46.36, 48.36] for Mercury and
\* [5.23, 5.63] for Neptune, so that the three speed self-checks pass
\* whenever the self-checks are run, at every instant and in every state.
C14_SpeedChecksPass ==
    /\ meanSpeedOf("Earth") \in 2928..3028
    /\ meanSpeedOf("Mercury") \in 4636..4836
    /\ meanSpeedOf("Neptune") \in 523..563
    /\ tests # <<>> =>
          /\ tests[1].name = "Earth speed" /\ tests[1].pass
          /\ tests[2].name = "Mercury speed" /\ tests[2].pass
          /\ tests[3].name = "Neptune speed" /\ tests[3].pass

\* C14 witness: the self-checks were run at another instant than the initial
\* one while the external source had failed; the speed checks passed and the
\* data-source check did not.
C14_Witness ==
    /\ ev.op = "checks"
    /\ tests # <<>>
    /\ now # 1793815569
    /\ dataSource = "spice"
    /\ spiceStatus = "error"
    /\ tests[1].pass /\ tests[2].pass /\ tests[3].pass
    /\ ~tests[8].pass


-----------------------------------------------------------------------------
(* Properties of the active source, lines 362-383 *)

\* C15: whenever the model source is active and the tick that follows its
\* selection has run, the row table is the eight-row circular output of the
\* latest tick and the status is 'idle', whatever happened before, external
\* requests still in flight at the switch included.
C15_ModelActiveShowsModel ==
    dataSource = "model" =>
        /\ rows = circularRows(visualJDTT)
        /\ spiceStatus = "idle"


\* C16: the 'Data source' record of the self-checks has pass = TRUE only when
\* the model source is active or the external status is 'ok', as its
\* expected text 'model or spice(ok)' says; with the external source active
\* and a status of 'loading', 'idle' or 'error' it has pass = FALSE.
C16_DataSourceCheckMeansOk ==
    (ev.op = "checks" /\ tests # <<>>) =>
        /\ tests[8].expected = "model or spice(ok)"
        /\ tests[8].pass <=> (dataSource = "model" \/ spiceStatus = "ok")


-----------------------------------------------------------------------------
(* Settlement of the external requests, lines 365-379 *)

\* A tick: a run of the row-building effect.
Tick == Frame \/ SetDataSource

\* A request in flight settles.
Settle == Then \/ Catch

\* The machine under the assumption that a request in flight is eventually
\* settled (fetch resolves or rejects).
SpecSettling == Init /\ [][Next]_vars /\ WF_vars(Settle)

\* C17: if the external source stays active and no further tick occurs, then,
\* every issued request being eventually settled, the status eventually is
\* 'ok' or 'error' and remains so; it is not left at 'loading' forever.
C17_ExternalSettles ==
    (<>[](dataSource = "spice") /\ <>[][~Tick]_vars)
        => <>[](spiceStatus \in {"ok", "error"})

\* C17 witness: with the external source active, the request of the latest
\* tick has settled, none is left in flight, and the status is 'ok' or 'error'.
C17_Witness ==
    /\ dataSource = "spice"
    /\ ev.op \in {"then", "catch"}
    /\ ~ev.req.superseded
    /\ pending = <<>>
    /\ spiceStatus \in {"ok", "error"}


-----------------------------------------------------------------------------
(* Properties of the installed row tables, lines 130-136 and 369-376 *)

\* Row r is the row of the k-th catalog body as far as its name, semi-major
\* axis and period go.
IsCatalogRow(r, k) ==
    /\ r.name = getOrbitalBodies[k].name
    /\ r.a = getOrbitalBodies[k].a_AU
    /\ r.T = getOrbitalBodies[k].T_days

\* C18: every row table ever installed lists bodies in catalog order
\* (Mercury .. Neptune), repeats no name, has no name outside the catalog, and
\* each row's semi-major axis and period are the catalog constants of its
\* name, whatever names, duplicates or order the response has.
C18_RowsFollowCatalog ==
    /\ \A i \in DOMAIN rows :
          \E k \in DOMAIN getOrbitalBodies : IsCatalogRow(rows[i], k)
    /\ \A i, j \in DOMAIN rows :
          i < j =>
              \E k, l \in DOMAIN getOrbitalBodies :
                  /\ k < l
                  /\ rows[i].name = getOrbitalBodies[k].name
                  /\ rows[j].name = getOrbitalBodies[l].name

\* C18 witness: a response listing Earth before Mercury was merged; the table
\* installed lists Mercury before Earth.
C18_Witness ==
    /\ ev.op = "then"
    /\ Len(ev.resp.json) = 2
    /\ ev.resp.json[1].name = "Earth"
    /\ ev.resp.json[2].name = "Mercury"
    /\ Len(rows) = 2
    /\ rows[1].name = "Mercury"
    /\ rows[2].name = "Earth"
    /\ spiceStatus = "ok"

====
